---- MODULE Spec2Model ----
(***************************************************************************)
(* The physics core of the gravity simulator (src/gravity_simulator.c,     *)
(* lines 1-578): body store, force accumulation, integration, stability    *)
(* check, collision merging, and the event handlers of main that drive     *)
(* them.                                                                   *)
(*                                                                         *)
(* Numbers.  A C double is held as a fixed-point integer counting units of *)
(* 1/SCALE (tenths), or as one of the three IEEE special values NaN, PInf, *)
(* NInf.  Every arithmetic result that is stored is rounded to the nearest *)
(* unit, as IEEE arithmetic rounds to the nearest double; a dimensionless  *)
(* ratio (scale, ratio) is kept exact inside the expression that uses it.  *)
(* Body masses are whole numbers in every reachable state (lines 58, 316,  *)
(* 198, 204), so mass is held in whole units.  Body indices are the C      *)
(* indices 0 .. MAX_BODIES-1.                                              *)
(***************************************************************************)
EXTENDS Integers, Sequences, FiniteSets, TLC

VARIABLES
    bodies,             \* Body bodies[MAX_BODIES]
    body_count,         \* int body_count
    window_width,       \* int window_width
    window_height,      \* int window_height
    simulation_paused,  \* bool simulation_paused
    warning_shown,      \* bool warning_shown
    out,                \* what the last handler printed and returned
    clamp_warnings,     \* number of "velocity clamped" lines printed so far
    clamps,             \* number of velocity clamps performed so far
    ticks,              \* number of loop iterations taken so far
    events,             \* number of SDL events handled so far
    resets              \* number of resets taken so far

vars == <<bodies, body_count, window_width, window_height, simulation_paused,
          warning_shown, out, clamp_warnings, clamps, ticks, events, resets>>

-----------------------------------------------------------------------------
(* Bounds of the exploration. *)

\* Capacity of the body store (the source sets 100).
MAX_BODIES == 6
\* Loop iterations explored.
MaxTicks == 2
\* SDL events (keys, mouse buttons, resizes) explored.
MaxEvents == 3

-----------------------------------------------------------------------------
(* Program constants, doubles in units of 1/SCALE. *)

SCALE == 10
INITIAL_WINDOW_WIDTH == 1200
INITIAL_WINDOW_HEIGHT == 800
INITIAL_BODY_COUNT == 5
G == SCALE \div 2
SOFTENING == 5 * SCALE
TIME_STEP == SCALE \div 10
BODY_RADIUS == 5 * SCALE
MAX_VELOCITY == 50 * SCALE
MAX_MASS == 50000
MAX_RADIUS == 100 * SCALE
FAR_MARGIN == 1000 * SCALE

\* IEEE special values of a double.
PInf == 2 ^ 30
NInf == 0 - (2 ^ 30)
NaN == (2 ^ 30) + 1

isnan(d) == d = NaN
isinf(d) == d = PInf \/ d = NInf

-----------------------------------------------------------------------------
(* Arithmetic on doubles. *)

Abs(a) == IF a < 0 THEN 0 - a ELSE a
Sign(a) == IF a < 0 THEN 0 - 1 ELSE 1

\* n / d rounded to the nearest unit, halves away from zero (d > 0).
RoundDiv(n, d) == Sign(n) * ((2 * Abs(n) + d) \div (2 * d))

\* (double -> Uint8) and (double -> int) casts of a non-negative quotient.
TruncDiv(n, d) == n \div d

\* Largest value of the integers the model computes with.
MaxInt == (2 ^ 30 - 1) * 2 + 1

\* a * b = q * c + r with 0 <= r < c, for a, b >= 0 and c > 0, computed digit
\* by digit of b in base 8 so that no intermediate value exceeds MaxInt (the
\* C doubles hold these products exactly).
RECURSIVE MulDivQR(_, _, _)
MulDivQR(a, b, c) ==
    IF b = 0 THEN <<0, 0>>
    ELSE LET h == MulDivQR(a, b \div 8, c)
             d == b % 8
             r2 == 8 * h[2] + d * (a % c)
         IN  <<8 * h[1] + d * (a \div c) + (r2 \div c), r2 % c>>

\* a * b / c rounded to the nearest unit (c > 0).
MulDiv(a, b, c) ==
    IF b = 0 \/ Abs(a) <= MaxInt \div (2 * Abs(b))
    THEN RoundDiv(a * b, c)
    ELSE LET qr == MulDivQR(Abs(a), Abs(b), c)
         IN  Sign(a) * Sign(b) * (qr[1] + (IF 2 * qr[2] >= c THEN 1 ELSE 0))

\* floor(sqrt(n)), n >= 0.
RECURSIVE Isqrt(_)
Isqrt(n) ==
    IF n < 16 THEN (IF n >= 9 THEN 3 ELSE IF n >= 4 THEN 2 ELSE IF n >= 1 THEN 1 ELSE 0)
    ELSE LET s == 4 * Isqrt(n \div 16)
         IN  IF (s + 3) * (s + 3) <= n THEN s + 3
             ELSE IF (s + 2) * (s + 2) <= n THEN s + 2
             ELSE IF (s + 1) * (s + 1) <= n THEN s + 1
             ELSE s

\* sqrt of a value held in units of 1/SCALE^2, in units of 1/SCALE, rounded.
Sqrt(n) == LET s == Isqrt(n) IN IF n - s * s > s THEN s + 1 ELSE s

-----------------------------------------------------------------------------
(* The body store. *)

Idx == 0 .. (MAX_BODIES - 1)

\* A slot of the zero-initialised global array.
ZeroBody == [x |-> 0, y |-> 0, vx |-> 0, vy |-> 0, ax |-> 0, ay |-> 0,
             mass |-> 0, radius |-> 0, active |-> FALSE,
             r |-> 0, g |-> 0, b |-> 0]

\* radius = BODY_RADIUS + (mass / 200) with mass a double (lines 59, 213).
RadiusOfDouble(mass) == BODY_RADIUS + RoundDiv(mass * SCALE, 200)

\* radius = BODY_RADIUS + (mass / 200) with mass an int: the division is an
\* integer division (line 317).
RadiusOfInt(mass) == (BODY_RADIUS \div SCALE + (mass \div 200)) * SCALE

-----------------------------------------------------------------------------
(* rand(): srand(time(NULL)) picks one of a few streams; a stream gives, for *)
(* each body of the batch, the eight values rand() returns for it in the     *)
(* order init_bodies asks for them: x, y, vx, vy, mass, r, g, b.             *)

Seeds == {1, 2}

RandStream(seed) ==
    IF seed = 1
    THEN \* five bodies far apart from each other
         << <<40, 40, 50, 50, 200, 10, 20, 30>>,
            <<0, 700, 0, 50, 400, 200, 0, 0>>,
            <<900, 100, 99, 50, 899, 0, 255, 0>>,
            <<800, 600, 50, 50, 0, 0, 0, 255>>,
            <<400, 400, 50, 50, 100, 90, 90, 90>> >>
    ELSE \* bodies 0, 1 and 2 overlap each other
         << <<40, 40, 50, 50, 0, 100, 0, 0>>,
            <<43, 40, 50, 50, 200, 0, 100, 0>>,
            <<40, 40, 50, 50, 900, 0, 0, 200>>,
            <<85, 15, 50, 75, 300, 50, 60, 70>>,
            <<5, 95, 25, 50, 50, 255, 255, 255>> >>

\* A variant of InitBody that does not reduce the position modulo the window.
InitBody_Unreduced(rv, w, h) ==
    LET mass == 100 + (rv[5] % 900)
    IN  [x |-> rv[1] * SCALE,
         y |-> rv[2] * SCALE,
         vx |-> RoundDiv(((rv[3] % 100) - 50) * SCALE, 50),
         vy |-> RoundDiv(((rv[4] % 100) - 50) * SCALE, 50),
         ax |-> 0, ay |-> 0,
         mass |-> mass,
         radius |-> RadiusOfDouble(mass),
         active |-> TRUE,
         r |-> rv[6] % 256, g |-> rv[7] % 256, b |-> rv[8] % 256]

\* The body init_bodies builds from the eight rand() values rv.
InitBody(rv, w, h) ==
    LET mass == 100 + (rv[5] % 900)
    IN  [x |-> (rv[1] % w) * SCALE,
         y |-> (rv[2] % h) * SCALE,
         vx |-> RoundDiv(((rv[3] % 100) - 50) * SCALE, 50),
         vy |-> RoundDiv(((rv[4] % 100) - 50) * SCALE, 50),
         ax |-> 0, ay |-> 0,
         mass |-> mass,
         radius |-> RadiusOfDouble(mass),
         active |-> TRUE,
         r |-> rv[6] % 256, g |-> rv[7] % 256, b |-> rv[8] % 256]

\* init_bodies(): slots 0 .. 4 are rewritten, the others are left as they are.
init_bodies(B, seed, w, h) ==
    [i \in Idx |-> IF i < INITIAL_BODY_COUNT
                   THEN InitBody(RandStream(seed)[i + 1], w, h)
                   ELSE B[i]]

-----------------------------------------------------------------------------
(* calculate_forces() *)

\* One pass of the inner loop body for the pair (i, j): both accelerations.
PairForce(B, i, j) ==
    LET dx == B[j].x - B[i].x
        dy == B[j].y - B[i].y
        dist_sq == dx * dx + dy * dy + SOFTENING * SOFTENING
        dist == Sqrt(dist_sq)
        force == MulDiv(G * SCALE * SCALE * B[i].mass, B[j].mass, dist_sq)
        fx == MulDiv(force, dx, dist)
        fy == MulDiv(force, dy, dist)
    IN  [B EXCEPT ![i].ax = @ + RoundDiv(fx, B[i].mass),
                  ![i].ay = @ + RoundDiv(fy, B[i].mass),
                  ![j].ax = @ - RoundDiv(fx, B[j].mass),
                  ![j].ay = @ - RoundDiv(fy, B[j].mass)]

RECURSIVE ForcesInner(_, _, _, _)
ForcesInner(B, n, i, j) ==
    IF j >= n THEN B
    ELSE IF ~B[j].active THEN ForcesInner(B, n, i, j + 1)
    ELSE ForcesInner(PairForce(B, i, j), n, i, j + 1)

RECURSIVE ForcesOuter(_, _, _)
ForcesOuter(B, n, i) ==
    IF i >= n THEN B
    ELSE IF ~B[i].active THEN ForcesOuter(B, n, i + 1)
    ELSE ForcesOuter(ForcesInner(B, n, i, i + 1), n, i + 1)

calculate_forces(B, n) ==
    LET reset == [i \in Idx |-> IF i < n /\ B[i].active
                                THEN [B[i] EXCEPT !.ax = 0, !.ay = 0]
                                ELSE B[i]]
    IN  ForcesOuter(reset, n, 0)

-----------------------------------------------------------------------------
(* update_bodies() *)

\* A variant of Wrap that lets a body leave the window.
Wrap_Never(p, bound) == p

\* A variant of Wrap that keeps the distance past the edge.
Wrap_Modular(p, bound) ==
    IF p < 0 THEN p + bound * SCALE
    ELSE IF p > bound * SCALE THEN p - bound * SCALE
    ELSE p

\* Wrap around screen edges, one axis (lines 130-133).
Wrap(p, bound) ==
    LET p1 == IF p < 0 THEN bound * SCALE ELSE p
    IN  IF p1 > bound * SCALE THEN 0 ELSE p1

\* A variant of ClampVelocity that never clamps.
ClampVelocity_Never(vx, vy) == <<vx, vy, FALSE>>

\* The velocity after the clamp (lines 114-118), as <<vx, vy, clamped>>.
ClampVelocity(vx, vy) ==
    LET speed == Sqrt(vx * vx + vy * vy)
    IN  IF speed > MAX_VELOCITY
        THEN <<RoundDiv(vx * MAX_VELOCITY, speed),
               RoundDiv(vy * MAX_VELOCITY, speed), TRUE>>
        ELSE <<vx, vy, FALSE>>

\* A variant of ShouldWarn that ignores the warning_shown flag.
ShouldWarn_Always(clamped, ws) == clamped

\* Line 119: whether a clamp prints the advisory.
ShouldWarn(clamped, ws) == clamped /\ ~ws

\* The loop body for one active body: the body after it.
UpdateBody(bd, w, h) ==
    LET vx1 == bd.vx + RoundDiv(bd.ax * TIME_STEP, SCALE)
        vy1 == bd.vy + RoundDiv(bd.ay * TIME_STEP, SCALE)
        cv == ClampVelocity(vx1, vy1)
        x1 == bd.x + RoundDiv(cv[1] * TIME_STEP, SCALE)
        y1 == bd.y + RoundDiv(cv[2] * TIME_STEP, SCALE)
    IN  [bd EXCEPT !.vx = cv[1], !.vy = cv[2],
                   !.x = Wrap(x1, w), !.y = Wrap(y1, h)]

\* Whether the loop body clamps body bd.
UpdateClamps(bd) ==
    ClampVelocity(bd.vx + RoundDiv(bd.ax * TIME_STEP, SCALE),
                  bd.vy + RoundDiv(bd.ay * TIME_STEP, SCALE))[3]

RECURSIVE UpdateLoop(_, _, _, _, _)
UpdateLoop(st, n, i, w, h) ==
    IF i >= n THEN st
    ELSE IF ~st.b[i].active THEN UpdateLoop(st, n, i + 1, w, h)
    ELSE LET clamped == UpdateClamps(st.b[i])
             warn == ShouldWarn(clamped, st.warning_shown)
         IN  UpdateLoop([b |-> [st.b EXCEPT ![i] = UpdateBody(@, w, h)],
                         warning_shown |-> st.warning_shown \/ warn,
                         clamped |-> st.clamped + (IF clamped THEN 1 ELSE 0),
                         ev |-> IF warn THEN Append(st.ev, <<"velocity_clamped", i>>)
                                ELSE st.ev],
                        n, i + 1, w, h)

\* update_bodies(): [b, warning_shown, clamped, ev] after the loop, clamped the
\* number of bodies whose velocity was clamped.
update_bodies(B, n, ws, w, h) ==
    UpdateLoop([b |-> B, warning_shown |-> ws, clamped |-> 0, ev |-> <<>>],
               n, 0, w, h)

-----------------------------------------------------------------------------
(* check_stability() *)

Invalid(bd) ==
    \/ isnan(bd.x) \/ isnan(bd.y) \/ isnan(bd.vx) \/ isnan(bd.vy)
    \/ isinf(bd.x) \/ isinf(bd.y) \/ isinf(bd.vx) \/ isinf(bd.vy)

Far(bd, w, h) ==
    \/ bd.x < 0 - FAR_MARGIN \/ bd.x > w * SCALE + FAR_MARGIN
    \/ bd.y < 0 - FAR_MARGIN \/ bd.y > h * SCALE + FAR_MARGIN

RECURSIVE StabilityLoop(_, _, _, _, _, _)
StabilityLoop(B, n, i, w, h, ev) ==
    IF i >= n THEN [ok |-> TRUE, ev |-> ev]
    ELSE IF ~B[i].active THEN StabilityLoop(B, n, i + 1, w, h, ev)
    ELSE IF Invalid(B[i])
         THEN [ok |-> FALSE, ev |-> Append(ev, <<"invalid", i>>)]
    ELSE StabilityLoop(B, n, i + 1, w, h,
                       IF Far(B[i], w, h) THEN Append(ev, <<"far", i>>) ELSE ev)

\* check_stability(): [ok, ev], ok the returned verdict.
check_stability(B, n, w, h) == StabilityLoop(B, n, 0, w, h, <<>>)

-----------------------------------------------------------------------------
(* handle_collisions() *)

\* A variant of ClampMass that keeps the summed mass.
ClampMass_Never(sum) == sum

\* Lines 201-206: the mass of the absorber, sum the summed mass of the pair.
ClampMass(sum) == IF sum > MAX_MASS THEN MAX_MASS ELSE sum

\* A variant of ClampRadius that keeps the radius.
ClampRadius_Never(radius) == radius

\* Lines 216-218.
ClampRadius(radius) == IF radius > MAX_RADIUS THEN MAX_RADIUS ELSE radius

\* A variant of MergedVelocity that averages the velocities without weights.
MergedVelocity_Unweighted(ml, vl, ms, vs, total_mass) == RoundDiv(vl + vs, 2)

\* Lines 208-209: one component of the absorber's velocity; ml, vl the mass
\* and velocity of the larger body, ms, vs of the smaller one.
MergedVelocity(ml, vl, ms, vs, total_mass) ==
    RoundDiv(ml * vl + ms * vs, total_mass)

\* A variant of Deactivate that leaves the absorbed body active.
Deactivate_Forgotten(bd) == bd

\* Line 227: the absorbed body is deactivated.
Deactivate(bd) == [bd EXCEPT !.active = FALSE]

\* Lines 198-230: body l (larger) absorbs body s (smaller).
\* st = [b, paused, ev].
Merge(st, l, s) ==
    LET lg == st.b[l]
        sm == st.b[s]
        sum == lg.mass + sm.mass
        over == sum > MAX_MASS
        total_mass == ClampMass(sum)
        merged == [lg EXCEPT
            !.vx = MergedVelocity(lg.mass, lg.vx, sm.mass, sm.vx, total_mass),
            !.vy = MergedVelocity(lg.mass, lg.vy, sm.mass, sm.vy, total_mass),
            !.mass = total_mass,
            !.radius = ClampRadius(RadiusOfDouble(total_mass)),
            !.r = TruncDiv(lg.r * (total_mass - sm.mass) + sm.r * sm.mass, total_mass),
            !.g = TruncDiv(lg.g * (total_mass - sm.mass) + sm.g * sm.mass, total_mass),
            !.b = TruncDiv(lg.b * (total_mass - sm.mass) + sm.b * sm.mass, total_mass)]
        ev1 == IF over THEN Append(st.ev, <<"mass_limit", l, sum>>) ELSE st.ev
    IN  [b |-> [st.b EXCEPT ![l] = merged, ![s] = Deactivate(@)],
         paused |-> st.paused \/ over,
         ev |-> Append(ev1, <<"collision", l, s, total_mass>>)]

\* A variant of Colliding in which touching bodies collide.
Colliding_Touching(B, i, j) ==
    LET dx == B[j].x - B[i].x
        dy == B[j].y - B[i].y
        reach == B[i].radius + B[j].radius
    IN  dx * dx + dy * dy <= reach * reach

\* Lines 174-179: whether slots i and j are colliding.  For non-negative
\* values sqrt(d) < r exactly when d < r * r, so the comparison is exact.
Colliding(B, i, j) ==
    LET dx == B[j].x - B[i].x
        dy == B[j].y - B[i].y
        reach == B[i].radius + B[j].radius
    IN  dx * dx + dy * dy < reach * reach

\* A variant of FirstIsLarger in which body j wins a tie.
FirstIsLarger_Strict(mi, mj) == mi > mj

\* Line 185: whether body i of the pair (i, j) is the larger one.
FirstIsLarger(mi, mj) == mi >= mj

\* The inner loop body for the pair (i, j), lines 174-231.
CollidePair(st, i, j) ==
    IF Colliding(st.b, i, j)
    THEN IF FirstIsLarger(st.b[i].mass, st.b[j].mass)
         THEN Merge(st, i, j)
         ELSE Merge(st, j, i)
    ELSE st

\* The inner loop tests bodies[j].active only (line 172).
RECURSIVE CollideInner(_, _, _, _)
CollideInner(st, n, i, j) ==
    IF j >= n THEN st
    ELSE IF ~st.b[j].active THEN CollideInner(st, n, i, j + 1)
    ELSE CollideInner(CollidePair(st, i, j), n, i, j + 1)

\* The outer loop tests bodies[i].active once, before the inner loop (line 169).
RECURSIVE CollideOuter(_, _, _)
CollideOuter(st, n, i) ==
    IF i >= n THEN st
    ELSE IF ~st.b[i].active THEN CollideOuter(st, n, i + 1)
    ELSE CollideOuter(CollideInner(st, n, i, i + 1), n, i + 1)

\* handle_collisions(): [b, paused, ev] after the pass.
handle_collisions(B, n, paused) ==
    CollideOuter([b |-> B, paused |-> paused, ev |-> <<>>], n, 0)

-----------------------------------------------------------------------------
(* add_body_with_velocity(), delete_body_at() *)

\* The slot add_body_with_velocity writes (lines 310-321); the colour is
\* rand() % 256 per channel, rv the three values rand() returns.
NewBody(x, y, mass, vx, vy, rv) ==
    [x |-> x * SCALE, y |-> y * SCALE, vx |-> vx, vy |-> vy,
     ax |-> 0, ay |-> 0, mass |-> mass, radius |-> RadiusOfInt(mass),
     active |-> TRUE, r |-> rv[1] % 256, g |-> rv[2] % 256, b |-> rv[3] % 256]

\* A variant of add_body_with_velocity that reuses the lowest inactive slot.
add_body_with_velocity_Reuses(B, n, x, y, mass, vx, vy, rv) ==
    LET free == {i \in Idx : i < n /\ ~B[i].active}
        slot == CHOOSE i \in free : \A j \in free : i <= j
    IN  IF free # {}
        THEN [b |-> [B EXCEPT ![slot] = NewBody(x, y, mass, vx, vy, rv)], n |-> n]
        ELSE IF n < MAX_BODIES
        THEN [b |-> [B EXCEPT ![n] = NewBody(x, y, mass, vx, vy, rv)], n |-> n + 1]
        ELSE [b |-> B, n |-> n]

\* A variant of add_body_with_velocity that overwrites the last slot when the
\* store is full.
add_body_with_velocity_Overwrites(B, n, x, y, mass, vx, vy, rv) ==
    IF n < MAX_BODIES
    THEN [b |-> [B EXCEPT ![n] = NewBody(x, y, mass, vx, vy, rv)], n |-> n + 1]
    ELSE [b |-> [B EXCEPT ![MAX_BODIES - 1] = NewBody(x, y, mass, vx, vy, rv)],
          n |-> n]

\* A variant of add_body_with_velocity without the capacity test of line 309.
add_body_with_velocity_Unguarded(B, n, x, y, mass, vx, vy, rv) ==
    [b |-> IF n \in Idx
           THEN [B EXCEPT ![n] = NewBody(x, y, mass, vx, vy, rv)]
           ELSE B,
     n |-> n + 1]

\* add_body_with_velocity(): [b, n] after the call.
add_body_with_velocity(B, n, x, y, mass, vx, vy, rv) ==
    IF n < MAX_BODIES
    THEN [b |-> [B EXCEPT ![n] = NewBody(x, y, mass, vx, vy, rv)], n |-> n + 1]
    ELSE [b |-> B, n |-> n]

\* Lines 337-341: whether the click (x, y) is within body bd's radius.  For
\* non-negative values sqrt(d) <= r exactly when d <= r * r.
Contains(bd, x, y) ==
    LET dx == x * SCALE - bd.x
        dy == y * SCALE - bd.y
    IN  dx * dx + dy * dy <= bd.radius * bd.radius

\* A variant of DeleteScan that keeps scanning after a match: the last match
\* is the one returned.
RECURSIVE DeleteScan_Last(_, _, _, _, _)
DeleteScan_Last(B, n, i, x, y) ==
    IF i >= n THEN 0 - 1
    ELSE LET later == DeleteScan_Last(B, n, i + 1, x, y)
         IN  IF later # 0 - 1 THEN later
             ELSE IF B[i].active /\ Contains(B[i], x, y) THEN i
             ELSE 0 - 1

\* delete_body_at(): the index returned, -1 when no body is found.
RECURSIVE DeleteScan(_, _, _, _, _)
DeleteScan(B, n, i, x, y) ==
    IF i >= n THEN 0 - 1
    ELSE IF ~B[i].active THEN DeleteScan(B, n, i + 1, x, y)
    ELSE IF Contains(B[i], x, y) THEN i
    ELSE DeleteScan(B, n, i + 1, x, y)

delete_body_at(B, n, x, y) == DeleteScan(B, n, 0, x, y)

-----------------------------------------------------------------------------
(* Inputs of the handlers. *)

\* Window sizes a resize event delivers.
WindowSizes == {<<INITIAL_WINDOW_WIDTH, INITIAL_WINDOW_HEIGHT>>, <<100, 100>>}

\* Arguments <<x, y, mass, vx, vy>> of add_body_with_velocity.  Its caller in
\* main passes mass 500 and a velocity of drag/10.0; the operation takes any
\* int position and mass and any double velocity.
SpawnInputs ==
    { <<40, 40, 100, 2 * SCALE, 0>>,
      <<40, 40, 50000, 78 * SCALE, 0>>,
      <<1200, 90, 500, 601, 601>>,
      <<10, 90, 500, NaN, 0>>,
      <<10, 90, 500, 0, PInf>> }

\* Values rand() returns for the colour of a spawned body.
ColourDraws == { <<255, 128, 0>> }

\* Points of a right click.
DeletePoints == { <<43, 40>>, <<1, 50>> }

\* What a handler leaves in out: the handler, its arguments, whether the
\* physics ran, the value returned, and the lines printed.
Report(op, arg, ran, ret, ev) ==
    [op |-> op, arg |-> arg, ran |-> ran, ret |-> ret, ev |-> ev]

-----------------------------------------------------------------------------
(* The state after construction: the zeroed globals, then init_bodies(). *)

Init ==
    /\ window_width = INITIAL_WINDOW_WIDTH
    /\ window_height = INITIAL_WINDOW_HEIGHT
    /\ \E seed \in Seeds :
          bodies = init_bodies([i \in Idx |-> ZeroBody], seed,
                               INITIAL_WINDOW_WIDTH, INITIAL_WINDOW_HEIGHT)
    /\ body_count = INITIAL_BODY_COUNT
    /\ simulation_paused = FALSE
    /\ warning_shown = FALSE
    /\ out = Report("init", <<>>, FALSE, 0, <<>>)
    /\ clamp_warnings = 0
    /\ clamps = 0
    /\ ticks = 0
    /\ events = 0
    /\ resets = 0

-----------------------------------------------------------------------------
(* The handlers of the main loop. *)

\* The physics the loop runs when the stability check passes (lines 484-486):
\* [b, paused, warning_shown, ev, warned, clamped].
Physics(B, n, paused, ws, w, h) ==
    LET f == calculate_forces(B, n)
        u == update_bodies(f, n, ws, w, h)
        c == handle_collisions(u.b, n, paused)
    IN  [b |-> c.b, paused |-> c.paused, warning_shown |-> u.warning_shown,
         ev |-> u.ev \o c.ev, warned |-> Len(u.ev), clamped |-> u.clamped]

\* A variant of AutoPause that leaves the flag as it is.
AutoPause_Forgotten(paused) == paused

\* Line 480: the pause flag after an unstable verdict.
AutoPause(paused) == TRUE

\* A variant of PhysicsEnabled that ignores the pause flag.
PhysicsEnabled_Always(paused) == TRUE

\* Line 477: whether the loop iteration runs its physics update.
PhysicsEnabled(paused) == ~paused

\* A variant of Tick whose collision pass draws the red component of body 0
\* from rand().
Tick_Jitter ==
    /\ ticks < MaxTicks
    /\ ticks' = ticks + 1
    /\ UNCHANGED <<body_count, window_width, window_height, events, resets>>
    /\ IF ~PhysicsEnabled(simulation_paused)
       THEN /\ UNCHANGED <<bodies, simulation_paused, warning_shown,
                           clamp_warnings, clamps>>
            /\ out' = Report("tick", <<>>, FALSE, 0, <<>>)
       ELSE LET cs == check_stability(bodies, body_count, window_width, window_height)
            IN  IF ~cs.ok
                THEN /\ simulation_paused' = AutoPause(simulation_paused)
                     /\ UNCHANGED <<bodies, warning_shown, clamp_warnings, clamps>>
                     /\ out' = Report("tick", <<>>, FALSE, 0,
                                      Append(cs.ev, <<"auto_paused">>))
                ELSE LET ph == Physics(bodies, body_count, simulation_paused,
                                       warning_shown, window_width, window_height)
                     IN  /\ \E k \in {0, 1} :
                               bodies' = [ph.b EXCEPT ![0].r = (@ + k) % 256]
                         /\ simulation_paused' = ph.paused
                         /\ warning_shown' = ph.warning_shown
                         /\ clamp_warnings' = clamp_warnings + ph.warned
                         /\ clamps' = clamps + ph.clamped
                         /\ out' = Report("tick", <<>>, TRUE, 0, cs.ev \o ph.ev)

\* Physics update of one loop iteration (lines 477-488).
Tick ==
    /\ ticks < MaxTicks
    /\ ticks' = ticks + 1
    /\ UNCHANGED <<body_count, window_width, window_height, events, resets>>
    /\ IF ~PhysicsEnabled(simulation_paused)
       THEN /\ UNCHANGED <<bodies, simulation_paused, warning_shown,
                           clamp_warnings, clamps>>
            /\ out' = Report("tick", <<>>, FALSE, 0, <<>>)
       ELSE LET cs == check_stability(bodies, body_count, window_width, window_height)
            IN  IF ~cs.ok
                THEN /\ simulation_paused' = AutoPause(simulation_paused)
                     /\ UNCHANGED <<bodies, warning_shown, clamp_warnings, clamps>>
                     /\ out' = Report("tick", <<>>, FALSE, 0,
                                      Append(cs.ev, <<"auto_paused">>))
                ELSE LET ph == Physics(bodies, body_count, simulation_paused,
                                       warning_shown, window_width, window_height)
                     IN  /\ bodies' = ph.b
                         /\ simulation_paused' = ph.paused
                         /\ warning_shown' = ph.warning_shown
                         /\ clamp_warnings' = clamp_warnings + ph.warned
                         /\ clamps' = clamps + ph.clamped
                         /\ out' = Report("tick", <<>>, TRUE, 0, cs.ev \o ph.ev)

\* SDLK_SPACE (lines 421-426).
KeySpace ==
    /\ events < MaxEvents
    /\ events' = events + 1
    /\ resets' = resets + 1
    /\ \E seed \in Seeds :
          bodies' = init_bodies(bodies, seed, window_width, window_height)
    /\ body_count' = INITIAL_BODY_COUNT
    /\ simulation_paused' = FALSE
    /\ warning_shown' = FALSE
    /\ out' = Report("reset", <<>>, FALSE, 0, << <<"reset">> >>)
    /\ UNCHANGED <<window_width, window_height, clamp_warnings, clamps, ticks>>

\* SDLK_p (lines 427-430).
KeyP ==
    /\ events < MaxEvents
    /\ events' = events + 1
    /\ simulation_paused' = ~simulation_paused
    /\ out' = Report("toggle", <<>>, FALSE, 0,
                     << <<IF simulation_paused THEN "resumed" ELSE "paused">> >>)
    /\ UNCHANGED <<bodies, body_count, window_width, window_height,
                   warning_shown, clamp_warnings, clamps, ticks, resets>>

\* SDL_WINDOWEVENT_RESIZED (lines 411-415).
Resize(w, h) ==
    /\ events < MaxEvents
    /\ events' = events + 1
    /\ window_width' = w
    /\ window_height' = h
    /\ out' = Report("resize", <<w, h>>, FALSE, 0, << <<"resized", w, h>> >>)
    /\ UNCHANGED <<bodies, body_count, simulation_paused, warning_shown,
                   clamp_warnings, clamps, ticks, resets>>

\* add_body_with_velocity(x, y, mass, vx, vy) and the line its caller prints
\* whether or not a body was added (lines 461-465).
Spawn(x, y, mass, vx, vy) ==
    /\ events < MaxEvents
    /\ events' = events + 1
    /\ \E rv \in ColourDraws :
          LET a == add_body_with_velocity(bodies, body_count, x, y, mass, vx, vy, rv)
          IN  /\ bodies' = a.b
              /\ body_count' = a.n
    /\ out' = Report("spawn", <<x, y, mass, vx, vy>>, FALSE, 0,
                     << <<"launched", x, y>> >>)
    /\ UNCHANGED <<window_width, window_height, simulation_paused, warning_shown,
                   clamp_warnings, clamps, ticks, resets>>

\* Right click (lines 444-449): delete_body_at(x, y).
DeleteAt(x, y) ==
    LET deleted == delete_body_at(bodies, body_count, x, y)
    IN  /\ events < MaxEvents
        /\ events' = events + 1
        /\ bodies' = IF deleted = 0 - 1 THEN bodies
                     ELSE [bodies EXCEPT ![deleted].active = FALSE]
        /\ out' = Report("delete", <<x, y>>, FALSE, deleted,
                         IF deleted = 0 - 1 THEN << <<"no_body_found", x, y>> >>
                         ELSE << <<"deleted", deleted>> >>)
        /\ UNCHANGED <<body_count, window_width, window_height, simulation_paused,
                       warning_shown, clamp_warnings, clamps, ticks, resets>>

Next ==
    \/ Tick
    \/ KeySpace
    \/ KeyP
    \/ \E ws \in WindowSizes : Resize(ws[1], ws[2])
    \/ \E a \in SpawnInputs : Spawn(a[1], a[2], a[3], a[4], a[5])
    \/ \E p \in DeletePoints : DeleteAt(p[1], p[2])

Spec == Init /\ [][Next]_vars

-----------------------------------------------------------------------------
(* A second specification, for the rules of update_bodies() and             *)
(* handle_collisions() on one pair of bodies: the program after four of the *)
(* five bodies of the batch have been deleted and one body has been         *)
(* spawned, then ticks.  Slot 4 holds a body of the batch, slot 5 the       *)
(* spawned body.  In some cases only three bodies of the batch have been    *)
(* deleted and slot 3 holds a neighbour of the pair.                        *)

\* The body of the batch in slot 4: at rest at (400, 400) with mass m.
RestBody(m) == InitBody(<<400, 400, 50, 50, m - 100, 90, 90, 90>>,
                        INITIAL_WINDOW_WIDTH, INITIAL_WINDOW_HEIGHT)

\* The body of slot 4 after it has absorbed spawned bodies up to mass m and
\* moves to the right at MAX_VELOCITY (lines 208-218).
GrownBody(m) == [RestBody(200) EXCEPT !.mass = m,
                                      !.radius = ClampRadius(RadiusOfDouble(m)),
                                      !.vx = MAX_VELOCITY]

\* Velocity components of a spawned body near an edge of the window.
EdgeSpeeds == {0 - MAX_VELOCITY, 0 - SCALE, 0, SCALE, MAX_VELOCITY}

\* Spawned bodies at and next to the edges of the window.
WrapCases ==
    { <<RestBody(200), <<x, y, 500, vx, vy>> >> :
        x \in {0, 5, INITIAL_WINDOW_WIDTH - 5, INITIAL_WINDOW_WIDTH},
        y \in {0, 300, INITIAL_WINDOW_HEIGHT},
        vx \in EdgeSpeeds, vy \in EdgeSpeeds }

\* Offsets between the centres of the pair, around the sums of radii 11, 13
\* and 15.
PairOffsets ==
    { <<d, 0>> : d \in 9 .. 16 } \cup { <<0, d>> : d \in 10 .. 15 }
        \cup { <<0, 0>>, <<6, 8>>, <<5, 12>>, <<12, 5>>, <<9, 12>>, <<12, 9>>,
               <<8, 8>>, <<10, 10>> }

\* A spawned body at rest next to the body of slot 4.
CollideCases ==
    { <<RestBody(m4), <<400 + o[1], 400 + o[2], m5, 0, 0>> >> :
        m4 \in {200, 500, 600}, m5 \in {100, 500}, o \in PairOffsets }

\* A spawned body launched into a grown body of slot 4.
ClampCases ==
    { <<GrownBody(m4), <<400, 400, m5, vx, 0>> >> :
        m4 \in {MAX_MASS - 200, MAX_MASS - 500, MAX_MASS - 1000},
        m5 \in {500, 5000},
        vx \in {78 * SCALE, 0, 0 - 78 * SCALE} }

\* The body of the batch in slot 3 when it has not been deleted: at rest,
\* with mass 200, d pixels to the left of the body of slot 4.
NeighbourBody(d) == InitBody(<<400 - d, 400, 50, 50, 100, 90, 90, 90>>,
                             INITIAL_WINDOW_WIDTH, INITIAL_WINDOW_HEIGHT)

\* A spawned body on top of the body of slot 4, with a neighbour in slot 3 a
\* little farther away than the sum of its radius and either of theirs.
NeighbourCases ==
    { <<RestBody(m4), <<400, 400, 500, 0, 0>>, NeighbourBody(d)>> :
        m4 \in {400, 600}, d \in 14 .. 18 }

UnitCases == WrapCases \cup CollideCases \cup ClampCases \cup NeighbourCases

UnitInit ==
    /\ window_width = INITIAL_WINDOW_WIDTH
    /\ window_height = INITIAL_WINDOW_HEIGHT
    /\ \E c \in UnitCases : \E rv \in ColourDraws :
          LET batch == init_bodies([i \in Idx |-> ZeroBody], 1,
                                   INITIAL_WINDOW_WIDTH, INITIAL_WINDOW_HEIGHT)
              a == c[2]
          IN  bodies = [i \in Idx |->
                          IF i = INITIAL_BODY_COUNT - 2 /\ Len(c) = 3 THEN c[3]
                          ELSE IF i < INITIAL_BODY_COUNT - 1
                          THEN [batch[i] EXCEPT !.active = FALSE]
                          ELSE IF i = INITIAL_BODY_COUNT - 1 THEN c[1]
                          ELSE IF i = INITIAL_BODY_COUNT
                          THEN NewBody(a[1], a[2], a[3], a[4], a[5], rv)
                          ELSE ZeroBody]
    /\ body_count = INITIAL_BODY_COUNT + 1
    /\ simulation_paused = FALSE
    /\ warning_shown = FALSE
    /\ out = Report("init", <<>>, FALSE, 0, <<>>)
    /\ clamp_warnings = 0
    /\ clamps = 0
    /\ ticks = 0
    /\ events = 0
    /\ resets = 0

UnitNext == Tick

UnitSpec == UnitInit /\ [][UnitNext]_vars

-----------------------------------------------------------------------------
(* Vocabulary of the properties. *)

\* Sum of mass over the active bodies of the first n slots of B.
RECURSIVE ActiveMassFrom(_, _, _)
ActiveMassFrom(B, n, i) ==
    IF i >= n THEN 0
    ELSE (IF B[i].active THEN B[i].mass ELSE 0) + ActiveMassFrom(B, n, i + 1)

ActiveMass(B, n) == ActiveMassFrom(B, n, 0)

\* Number of lines of kind `kind' among the printed lines ev.
NumEv(ev, kind) == Cardinality({k \in 1 .. Len(ev) : ev[k][1] = kind})

\* The slots in use.
Used == {i \in Idx : i < body_count}

\* A step of the loop's physics update, of a spawn, of a right click.
TickStep == ticks' = ticks + 1
SpawnStep == events' = events + 1 /\ out'.op = "spawn"
DeleteStep == events' = events + 1 /\ out'.op = "delete"

\* A value that is NaN or an infinity.
NonFinite(d) == d \in {NaN, PInf, NInf}

\* Some active body of the current state has a non-finite component.
SomeNonFinite ==
    \E i \in Used :
        /\ bodies[i].active
        /\ \/ NonFinite(bodies[i].x) \/ NonFinite(bodies[i].y)
           \/ NonFinite(bodies[i].vx) \/ NonFinite(bodies[i].vy)

\* The next tick would run the physics.
TickWouldRun == ~simulation_paused /\ ~SomeNonFinite

\* The body store between update_bodies and handle_collisions of the next tick.
AfterIntegration ==
    update_bodies(calculate_forces(bodies, body_count), body_count,
                  warning_shown, window_width, window_height).b

\* Squared speed of a body.
SpeedSq(bd) == bd.vx * bd.vx + bd.vy * bd.vy

-----------------------------------------------------------------------------
(* C1 *)

\* C1 (as the code has it): the sum of mass over active bodies after a tick
\* differs from the sum before only if at least one merge happened in that
\* tick; a tick with exactly one merge keeps the sum when the pair's summed
\* mass is within MAX_MASS and lowers it when the summed mass is clamped.
C1_MassChangesOnlyByMerge ==
    [][TickStep =>
        LET before == ActiveMass(bodies, body_count)
            after == ActiveMass(bodies', body_count')
            merges == NumEv(out'.ev, "collision")
            limits == NumEv(out'.ev, "mass_limit")
        IN  /\ after # before => merges >= 1
            /\ merges = 1 /\ limits = 0 => after = before
            /\ merges = 1 /\ limits = 1 => after < before]_vars

\* C1 as stated: the sum after a tick is at least the sum before, and differs
\* from it only if a merge happened.
C1_Original ==
    [][TickStep =>
        LET before == ActiveMass(bodies, body_count)
            after == ActiveMass(bodies', body_count')
        IN  /\ after >= before
            /\ after # before => NumEv(out'.ev, "collision") >= 1]_vars

\* A tick has run whose only merge was clamped at MAX_MASS.
C1_Witness ==
    /\ out.op = "tick" /\ out.ran
    /\ NumEv(out.ev, "collision") = 1
    /\ \E k \in 1 .. Len(out.ev) :
          out.ev[k][1] = "mass_limit" /\ out.ev[k][3] > MAX_MASS

-----------------------------------------------------------------------------
(* C2 *)

\* C2: an unpaused tick that starts with an active body holding a non-finite
\* position or velocity component reports unstable, runs no physics, changes
\* no body and sets the pause flag.
C2_UnstableTickFreezes ==
    [][(TickStep /\ ~simulation_paused /\ SomeNonFinite) =>
        /\ ~out'.ran
        /\ NumEv(out'.ev, "invalid") = 1
        /\ NumEv(out'.ev, "auto_paused") = 1
        /\ bodies' = bodies
        /\ body_count' = body_count
        /\ simulation_paused']_vars

\* A tick has reported unstable and has paused the simulation.
C2_Witness ==
    /\ out.op = "tick" /\ ~out.ran
    /\ NumEv(out.ev, "auto_paused") = 1
    /\ simulation_paused
    /\ SomeNonFinite

-----------------------------------------------------------------------------
(* C3 *)

-----------------------------------------------------------------------------
(* C4 *)

\* C4: after every merge of a collision pass the absorber's mass is at most
\* MAX_MASS and its radius is at most MAX_RADIUS.
C4_MergeBounds ==
    out.op = "tick" =>
        \A k \in 1 .. Len(out.ev) :
            out.ev[k][1] = "collision" =>
                /\ bodies[out.ev[k][2]].mass <= MAX_MASS
                /\ bodies[out.ev[k][2]].radius <= MAX_RADIUS

\* A merge has left its absorber at both limits.
C4_Witness ==
    /\ out.op = "tick"
    /\ \E k \in 1 .. Len(out.ev) :
          /\ out.ev[k][1] = "collision"
          /\ bodies[out.ev[k][2]].mass = MAX_MASS
          /\ bodies[out.ev[k][2]].radius = MAX_RADIUS

-----------------------------------------------------------------------------
(* C5 *)

\* C5: without a reset, a body whose active flag has become false never has
\* active = true again.
C5_InactiveStaysInactive ==
    [][resets' = resets =>
        \A i \in Used : ~bodies[i].active => ~bodies'[i].active]_vars

\* A body has been spawned while an earlier body was inactive.
C5_Witness ==
    /\ out.op = "spawn"
    /\ \E i \in Used : ~bodies[i].active
    /\ bodies[body_count - 1].active

-----------------------------------------------------------------------------
(* C6 *)

\* C6 (as the code has it): when body_count equals MAX_BODIES a spawn changes
\* neither body_count nor any stored body, and nothing reports the failure:
\* the caller prints the same line as for a spawn that added a body.
C6_SpawnAtCapacityIsSilent ==
    [][(SpawnStep /\ body_count = MAX_BODIES) =>
        /\ body_count' = body_count
        /\ bodies' = bodies
        /\ out'.ev = << <<"launched", out'.arg[1], out'.arg[2]>> >>]_vars

\* C6 as stated: the spawn is a no-op and reports capacity exceeded.
C6_Original ==
    [][(SpawnStep /\ body_count = MAX_BODIES) =>
        /\ body_count' = body_count
        /\ bodies' = bodies
        /\ NumEv(out'.ev, "capacity_exceeded") >= 1]_vars

\* A spawn has been made on a full store: the last slot holds another body
\* than the one asked for.
C6_Witness ==
    /\ out.op = "spawn"
    /\ body_count = MAX_BODIES
    /\ bodies[MAX_BODIES - 1].x # out.arg[1] * SCALE

-----------------------------------------------------------------------------
(* C7 *)

\* Squared distance between the centre of bd and the point (x, y).
DistSq(bd, x, y) ==
    (x * SCALE - bd.x) * (x * SCALE - bd.x) + (y * SCALE - bd.y) * (y * SCALE - bd.y)

\* The active bodies of the current state whose radius contains (x, y).
Hits(x, y) ==
    {i \in Used : bodies[i].active
                  /\ DistSq(bodies[i], x, y) <= bodies[i].radius * bodies[i].radius}

\* Everything a right click leaves alone.
DeleteFrame ==
    UNCHANGED <<body_count, window_width, window_height, simulation_paused,
                warning_shown>>

\* C7 (as the code has it): deleteAt(x, y) deactivates, among the active bodies
\* whose radius contains the point, the one with the lowest index and returns
\* that index; when no active body contains the point it returns -1 and
\* changes no state.
C7_DeletesLowestIndexed ==
    [][DeleteStep =>
        LET hits == Hits(out'.arg[1], out'.arg[2])
        IN  /\ DeleteFrame
            /\ IF hits = {}
               THEN out'.ret = 0 - 1 /\ bodies' = bodies
               ELSE /\ out'.ret \in hits
                    /\ \A h \in hits : out'.ret <= h
                    /\ bodies' = [bodies EXCEPT ![out'.ret].active = FALSE]]_vars

\* C7 as stated: the body deactivated is the one whose centre is nearest to
\* the point.
C7_Original ==
    [][DeleteStep =>
        LET x == out'.arg[1]
            y == out'.arg[2]
            hits == Hits(x, y)
        IN  /\ DeleteFrame
            /\ IF hits = {}
               THEN out'.ret = 0 - 1 /\ bodies' = bodies
               ELSE /\ out'.ret \in hits
                    /\ \A h \in hits :
                          DistSq(bodies[out'.ret], x, y) <= DistSq(bodies[h], x, y)
                    /\ bodies' = [bodies EXCEPT ![out'.ret].active = FALSE]]_vars

\* A right click has deleted a body while an active body of a higher index,
\* nearer to the point, contains the point too.
C7_Witness ==
    /\ out.op = "delete"
    /\ out.ret >= 0
    /\ ~bodies[out.ret].active
    /\ \E j \in Hits(out.arg[1], out.arg[2]) :
          /\ j > out.ret
          /\ DistSq(bodies[j], out.arg[1], out.arg[2])
                < DistSq(bodies[out.ret], out.arg[1], out.arg[2])

-----------------------------------------------------------------------------
(* C8 *)

\* The line of the only merge of a tick that printed ev.
OnlyMerge(ev) == ev[CHOOSE k \in 1 .. Len(ev) : ev[k][1] = "collision"]

\* a / t and b / t differ by at most half a unit.
Near(a, b, t) == 2 * Abs(a - b) <= t

\* C8: in a merge the absorber's new velocity is, per component, the sum of
\* mass * velocity of the two bodies before the merge divided by the new mass,
\* the new mass being the summed mass clamped at MAX_MASS (checked on every
\* tick that has exactly one merge, against the bodies as update_bodies left
\* them).
C8_MomentumWeightedVelocity ==
    [][(TickStep /\ out'.ran /\ NumEv(out'.ev, "collision") = 1) =>
        LET m == OnlyMerge(out'.ev)
            u == AfterIntegration
            lg == u[m[2]]
            sm == u[m[3]]
            sum == lg.mass + sm.mass
            new_mass == IF sum > MAX_MASS THEN MAX_MASS ELSE sum
            after == bodies'[m[2]]
        IN  /\ after.mass = new_mass
            /\ Near(new_mass * after.vx, lg.mass * lg.vx + sm.mass * sm.vx, new_mass)
            /\ Near(new_mass * after.vy, lg.mass * lg.vy + sm.mass * sm.vy, new_mass)]_vars

\* The example: a body of mass 100 with velocity (2, 0) has been absorbed by a
\* body of mass 300 that was at rest at the same point, and the absorber has
\* velocity (0.5, 0).
C8_Witness ==
    /\ out.op = "tick" /\ out.ran
    /\ out.ev = << <<"collision", 0, INITIAL_BODY_COUNT, 400>> >>
    /\ bodies[INITIAL_BODY_COUNT].mass = 100
    /\ bodies[INITIAL_BODY_COUNT].vx = 2 * SCALE
    /\ bodies[INITIAL_BODY_COUNT].vy = 0
    /\ bodies[0].mass = 400
    /\ bodies[0].vx = SCALE \div 2
    /\ bodies[0].vy = 0

-----------------------------------------------------------------------------
(* C9 *)

\* C9: a merge whose summed mass exceeds MAX_MASS leaves the absorber with
\* mass MAX_MASS and sets the pause flag; a tick taken while the flag is set
\* runs no physics and keeps the flag, and the flag is cleared only by the
\* pause key or by a reset.
C9_MassLimitPauses ==
    [][/\ (TickStep /\ NumEv(out'.ev, "mass_limit") >= 1) =>
            /\ simulation_paused'
            /\ \A k \in 1 .. Len(out'.ev) :
                  out'.ev[k][1] = "mass_limit" =>
                      /\ out'.ev[k][3] > MAX_MASS
                      /\ bodies'[out'.ev[k][2]].mass = MAX_MASS
       /\ (TickStep /\ simulation_paused) =>
            ~out'.ran /\ bodies' = bodies /\ simulation_paused'
       /\ (simulation_paused /\ ~simulation_paused') =>
            out'.op \in {"toggle", "reset"}]_vars

\* A merge was clamped at MAX_MASS, and the tick after it has run no physics.
C9_Witness ==
    /\ out.op = "tick" /\ ~out.ran /\ out.ev = <<>>
    /\ simulation_paused
    /\ \E i \in Used :
          /\ bodies[i].active
          /\ bodies[i].mass = MAX_MASS
          /\ bodies[i].radius = MAX_RADIUS

-----------------------------------------------------------------------------
(* C10 *)

\* C10 (as the code has it): the velocity-clamp advisory is printed at most
\* once between two resets, a reset allowing it again, and it is printed for
\* the first clamp; the clamps themselves are not limited.
C10_AdvisoryOncePerReset ==
    /\ clamp_warnings <= resets + 1
    /\ clamp_warnings <= clamps
    /\ clamps >= 1 => clamp_warnings >= 1

\* C10 as stated: over the whole process lifetime the advisory is printed at
\* most once.
C10_Original == clamp_warnings <= 1

\* A velocity has been clamped without an advisory, the advisory having been
\* printed for an earlier clamp.
C10_Witness ==
    /\ out.op = "tick" /\ out.ran
    /\ NumEv(out.ev, "velocity_clamped") = 0
    /\ clamps > clamp_warnings
    /\ clamp_warnings = 1

-----------------------------------------------------------------------------
(* C11 *)

\* C11: a tick taken while the pause flag is set runs neither the stability
\* monitor nor any physics: every body, body_count, the pause flag and the
\* warning-shown flag are unchanged, and nothing is printed.
C11_PausedTickChangesNothing ==
    [][(TickStep /\ simulation_paused) =>
        /\ ~out'.ran
        /\ out'.ev = <<>>
        /\ bodies' = bodies
        /\ body_count' = body_count
        /\ simulation_paused' = simulation_paused
        /\ warning_shown' = warning_shown]_vars

\* A paused tick has been taken while an active body held a non-finite value,
\* and the stability monitor has printed nothing.
C11_Witness ==
    /\ out.op = "tick" /\ ~out.ran
    /\ NumEv(out.ev, "auto_paused") = 0
    /\ NumEv(out.ev, "invalid") = 0
    /\ simulation_paused
    /\ SomeNonFinite

-----------------------------------------------------------------------------
(* C12 *)

\* C12: in every reachable state body_count is at most MAX_BODIES, and no
\* operation other than a full reset decreases body_count: a deletion and a
\* merge clear the active flag of a slot and leave the count alone.
C12_CountBoundedAndMonotone ==
    /\ [](body_count <= MAX_BODIES)
    /\ [][body_count' < body_count => out'.op = "reset"]_vars
    /\ [][(DeleteStep \/ TickStep) => body_count' = body_count]_vars

\* The store is full, and a deletion has removed a body or a tick has merged
\* two bodies.
C12_Witness ==
    /\ body_count = MAX_BODIES
    /\ \/ out.op = "delete" /\ out.ret >= 0 /\ ~bodies[out.ret].active
       \/ out.op = "tick" /\ NumEv(out.ev, "collision") > 0

-----------------------------------------------------------------------------
(* C13 *)

ResetStep == events' = events + 1 /\ out'.op = "reset"

\* The store B with every slot from n on zeroed.
Blanked(B, n) == [i \in Idx |-> IF i < n THEN B[i] ELSE ZeroBody]

\* What the components that read the store compute from (B, n): the verdict
\* and lines of the stability monitor, the slots below n and the flags and
\* lines after the physics, and the body a right click finds.
Observed(B, n, w, h) ==
    LET cs == check_stability(B, n, w, h)
        ph == Physics(B, n, FALSE, FALSE, w, h)
    IN  <<cs, [i \in {k \in Idx : k < n} |-> ph.b[i]], ph.paused,
          ph.warning_shown, ph.ev,
          [p \in DeletePoints |-> delete_body_at(B, n, p[1], p[2])]>>

\* A velocity component init_bodies can produce: (k - 50) / 50.0 for a k in
\* 0 .. 99, which lies in [-1, 1).
InitVelocities == {RoundDiv((k - 50) * SCALE, 50) : k \in 0 .. 99}

-----------------------------------------------------------------------------
(* C14 *)

\* The coordinate a body reaches on one axis before the wrap: its position
\* plus the velocity update_bodies leaves it with times TIME_STEP.
RawX(i) == bodies[i].x + RoundDiv(AfterIntegration[i].vx * TIME_STEP, SCALE)
RawY(i) == bodies[i].y + RoundDiv(AfterIntegration[i].vy * TIME_STEP, SCALE)

\* The wrap rule as the claim words it.
Wrapped(raw, bound) ==
    IF raw < 0 THEN bound * SCALE
    ELSE IF raw > bound * SCALE THEN 0
    ELSE raw

\* C14: per axis, a coordinate strictly below 0 becomes exactly the upper
\* bound of the viewport, a coordinate strictly above the upper bound becomes
\* exactly 0, and a coordinate in [0, bound] is unchanged; with width 1200,
\* -5 becomes 1200 and 1205 becomes 0.
C14_WrapRule ==
    [][(TickStep /\ out'.ran) =>
        \A i \in Used : bodies[i].active =>
            /\ bodies'[i].x = Wrapped(RawX(i), window_width)
            /\ bodies'[i].y = Wrapped(RawY(i), window_height)
            /\ (window_width = 1200 /\ RawX(i) = (0 - 5) * SCALE)
                  => bodies'[i].x = 1200 * SCALE
            /\ (window_width = 1200 /\ RawX(i) = 1205 * SCALE)
                  => bodies'[i].x = 0]_vars

\* A tick has moved the spawned body from x = 0 to x = -5 and from the lower
\* edge to below it, and the body is at x = 1200 and y = 0.
C14_Witness ==
    /\ out.op = "tick" /\ out.ran /\ ticks = 1
    /\ window_width = 1200
    /\ bodies[INITIAL_BODY_COUNT].active
    /\ bodies[INITIAL_BODY_COUNT].vx = 0 - MAX_VELOCITY
    /\ bodies[INITIAL_BODY_COUNT].vy = 0
    /\ bodies[INITIAL_BODY_COUNT].x = 1200 * SCALE

-----------------------------------------------------------------------------
(* C15 *)

\* Two spawned bodies of mass 100, radius 5 each, with their centres gap
\* tenths of a pixel apart, alone in the store.
RadiusFivePair(gap) ==
    [i \in Idx |-> IF i = 0 THEN NewBody(400, 400, 100, 0, 0, <<0, 0, 0>>)
                   ELSE IF i = 1
                   THEN [NewBody(400, 400, 100, 0, 0, <<0, 0, 0>>)
                            EXCEPT !.x = @ + gap]
                   ELSE ZeroBody]

\* The slots active when the collision pass of the next tick starts.
ActiveAtPass == {i \in Used : AfterIntegration[i].active}

\* C15: two active bodies are merged by the collision pass exactly when the
\* distance between their centres is strictly less than the sum of their
\* radii; at a distance equal to the sum (radii 5 and 5 at distance 10) they
\* are not merged.
C15_MergeIffStrictlyCloser ==
    [][(TickStep /\ out'.ran) =>
        /\ \A i \in ActiveAtPass : \A j \in ActiveAtPass :
              (i < j /\ ActiveAtPass = {i, j}) =>
                 LET u == AfterIntegration
                     dx == u[j].x - u[i].x
                     dy == u[j].y - u[i].y
                     sum == u[i].radius + u[j].radius
                     merged == /\ NumEv(out'.ev, "collision") = 1
                               /\ bodies'[i].active # bodies'[j].active
                 IN  /\ merged <=> (dx * dx + dy * dy < sum * sum)
                     /\ ~merged => (bodies'[i].active /\ bodies'[j].active)
        /\ handle_collisions(RadiusFivePair(10 * SCALE), 2, FALSE).ev = <<>>
        /\ Len(handle_collisions(RadiusFivePair(10 * SCALE - 1), 2, FALSE).ev) = 1]_vars

\* A tick has run the collision pass on a pair whose centres are exactly the
\* sum of the radii apart (6 + 5 = 11 along x), and both bodies are active.
C15_Witness ==
    /\ out.op = "tick" /\ out.ran
    /\ bodies[INITIAL_BODY_COUNT - 1].active
    /\ bodies[INITIAL_BODY_COUNT].active
    /\ bodies[INITIAL_BODY_COUNT - 1].radius = 6 * SCALE
    /\ bodies[INITIAL_BODY_COUNT].radius = 5 * SCALE
    /\ bodies[INITIAL_BODY_COUNT].y = bodies[INITIAL_BODY_COUNT - 1].y
    /\ bodies[INITIAL_BODY_COUNT].x - bodies[INITIAL_BODY_COUNT - 1].x = 11 * SCALE

-----------------------------------------------------------------------------
(* C16 *)

\* The body store, pause flag, warning-shown flag and printed lines a tick
\* leaves, as a function of the state it starts from.
TickResult ==
    IF simulation_paused
    THEN <<bodies, simulation_paused, warning_shown, <<>> >>
    ELSE LET cs == check_stability(bodies, body_count, window_width, window_height)
         IN  IF ~cs.ok
             THEN <<bodies, TRUE, warning_shown, Append(cs.ev, <<"auto_paused">>)>>
             ELSE LET c == handle_collisions(AfterIntegration, body_count,
                                             simulation_paused)
                      u == update_bodies(calculate_forces(bodies, body_count),
                                         body_count, warning_shown,
                                         window_width, window_height)
                  IN  <<c.b, c.paused, u.warning_shown, cs.ev \o u.ev \o c.ev>>

-----------------------------------------------------------------------------
(* C17 *)

\* The positions, among the printed lines ev, of the merges.
Merges(ev) == {k \in 1 .. Len(ev) : ev[k][1] = "collision"}

\* C17: within one collision pass, a body that has been absorbed takes part
\* in no later pair of that pass, neither as the absorber nor as the absorbed
\* body, the remaining pairs of the outer index under which it was absorbed
\* included.
C17_AbsorbedBodyIsOut ==
    out.op = "tick" =>
        \A k \in Merges(out.ev) : \A m \in Merges(out.ev) :
            k < m => /\ out.ev[m][2] # out.ev[k][3]
                     /\ out.ev[m][3] # out.ev[k][3]

-----------------------------------------------------------------------------
(* C18 *)

\* The fields of a body the claim lists: position, velocity, mass, radius,
\* colour and active flag.
Listed(bd) == <<bd.x, bd.y, bd.vx, bd.vy, bd.mass, bd.radius,
                bd.r, bd.g, bd.b, bd.active>>

\* A tick leaves every body that was inactive when it started as it was.
InactiveUntouched ==
    \A i \in Used : ~bodies[i].active => Listed(bodies'[i]) = Listed(bodies[i])

\* A body absorbed in the pass of a tick, and not an absorber before that,
\* ends the tick as the integration left it, with its active flag cleared.
AbsorbedUntouched ==
    \A k \in Merges(out'.ev) :
        LET a == out'.ev[k][3]
        IN  (\A m \in Merges(out'.ev) : m < k => out'.ev[m][2] # a) =>
               Listed(bodies'[a]) = Listed(Deactivate(AfterIntegration[a]))

\* C18: a tick never modifies an inactive body: a body inactive at the start
\* of a tick has the same position, velocity, mass, radius, colour and active
\* flag at its end, and a body absorbed during the collision pass is not
\* modified again after its absorption in that pass.
C18_InactiveBodiesUntouched ==
    [][TickStep => (InactiveUntouched /\ AbsorbedUntouched)]_vars

-----------------------------------------------------------------------------
(* C19 *)

\* C19: in a tick in which no merge hits the mass limit, the sum of mass over
\* the active bodies after the tick equals the sum before it exactly, for any
\* number of bodies overlapping at once.
C19_MassConservedWithoutClamp ==
    [][(TickStep /\ NumEv(out'.ev, "mass_limit") = 0) =>
        ActiveMass(bodies', body_count') = ActiveMass(bodies, body_count)]_vars

-----------------------------------------------------------------------------
(* C20 *)

\* C20: at the end of every complete tick, after the collision pass, every
\* active body has speed at most MAX_VELOCITY, an absorber whose merged mass
\* was clamped to MAX_MASS included.  Speeds are compared with the two tenths
\* of rounding the model's velocity clamp can leave, so that only a speed
\* that is above MAX_VELOCITY in the program as well is counted.
C20_SpeedBoundedAtEndOfTick ==
    (out.op = "tick" /\ out.ran) =>
        \A i \in Used : bodies[i].active =>
            SpeedSq(bodies[i]) <= (MAX_VELOCITY + 2) * (MAX_VELOCITY + 2)

-----------------------------------------------------------------------------
(* C21 *)

\* The radius a merge assigns to an absorber whose new mass is m (lines
\* 213-218).
MergeRadius(m) == ClampRadius(RadiusOfDouble(m))

\* C21: for every mass m that spawn accepts, the radius spawn assigns to the
\* new body equals the radius a merge assigns to an absorber whose new mass
\* is m: base radius + m / 200, clamped to MAX_RADIUS.
C21_OneRadiusFunction ==
    [][(SpawnStep /\ body_count' = body_count + 1) =>
        bodies'[body_count].radius = MergeRadius(bodies'[body_count].mass)]_vars

-----------------------------------------------------------------------------
(* C22 *)

\* The slots active when a tick starts.
ActiveAtStart == {i \in Used : bodies[i].active}

\* G * mass(i) * mass(j) / (distance^2 + softening^2) for the bodies of slots
\* i and j of the current state, in tenths.
ClaimedForce(i, j) ==
    LET dx == bodies[j].x - bodies[i].x
        dy == bodies[j].y - bodies[i].y
    IN  MulDiv(G * SCALE * SCALE * bodies[i].mass, bodies[j].mass,
               dx * dx + dy * dy + SOFTENING * SOFTENING)

\* C22: the softening term enters only the denominator of the force
\* magnitude: the force on body i from body j has magnitude exactly
\* G * mass(i) * mass(j) / (distance^2 + softening^2), its direction being the
\* displacement divided by the unsoftened distance.  Checked on a pair alone
\* in the store with distinct centres, through the acceleration the tick
\* leaves in body i, force / mass(i), to within one tenth in magnitude.
C22_SofteningOnlyInDenominator ==
    [][(TickStep /\ out'.ran) =>
        \A i \in ActiveAtStart : \A j \in ActiveAtStart :
            (i # j /\ ActiveAtStart = {i, j}
                   /\ <<bodies[i].x, bodies[i].y>> # <<bodies[j].x, bodies[j].y>>) =>
               LET mag == Sqrt(bodies'[i].ax * bodies'[i].ax
                                 + bodies'[i].ay * bodies'[i].ay)
                   claimed == RoundDiv(ClaimedForce(i, j), bodies[i].mass)
               IN  Abs(mag - claimed) <= 1]_vars

-----------------------------------------------------------------------------
(* C23 *)

\* C23: for every colliding pair (i, j) with i < j the absorber is the body
\* with the greater mass and, when the masses are equal, the lower-indexed
\* body i; the other body is the one deactivated.  Checked on every tick
\* whose pass merges one pair, against the masses update_bodies left.
C23_AbsorberIsHeavierOrFirst ==
    [][(TickStep /\ out'.ran /\ NumEv(out'.ev, "collision") = 1) =>
        LET e == OnlyMerge(out'.ev)
            l == e[2]
            sm == e[3]
            u == AfterIntegration
        IN  /\ u[l].active /\ u[sm].active
            /\ \/ u[l].mass > u[sm].mass
               \/ u[l].mass = u[sm].mass /\ l < sm
            /\ bodies'[l].active
            /\ ~bodies'[sm].active]_vars

\* A tick has merged two bodies of equal mass 500 and the body of slot 4,
\* the lower-indexed one, is the absorber.
C23_Witness ==
    /\ out.op = "tick" /\ out.ran
    /\ NumEv(out.ev, "collision") = 1
    /\ OnlyMerge(out.ev)[2] = INITIAL_BODY_COUNT - 1
    /\ OnlyMerge(out.ev)[3] = INITIAL_BODY_COUNT
    /\ OnlyMerge(out.ev)[4] = 1000
    /\ bodies[INITIAL_BODY_COUNT].mass = 500

-----------------------------------------------------------------------------
(* C24 *)

\* A full store in which no body is active.
AllGone == [i \in Idx |-> Deactivate(NewBody(40, 40, 500, 0, 0, <<0, 0, 0>>))]

\* C24: slots are never reused: once body_count has reached the capacity,
\* every spawn fails until a reset, also when stored bodies have been deleted
\* or absorbed, and when no body is active at all.
C24_SlotsNeverReused ==
    /\ [][(SpawnStep /\ body_count = MAX_BODIES) =>
            (bodies' = bodies /\ body_count' = body_count)]_vars
    /\ [][(body_count = MAX_BODIES /\ out'.op # "reset") =>
            body_count' = MAX_BODIES]_vars
    /\ [][SpawnStep =>
            \A a \in SpawnInputs : \A rv \in ColourDraws :
                add_body_with_velocity(AllGone, MAX_BODIES,
                                       a[1], a[2], a[3], a[4], a[5], rv)
                  = [b |-> AllGone, n |-> MAX_BODIES]]_vars

\* A spawn has been refused by the full store while one of its slots held an
\* inactive body: the body of the last slot is not the one asked for.
C24_Witness ==
    /\ out.op = "spawn"
    /\ body_count = MAX_BODIES
    /\ bodies[MAX_BODIES - 1].mass # out.arg[3]
    /\ \E i \in Used : ~bodies[i].active

-----------------------------------------------------------------------------
(* C25 *)

\* C25: once the stability monitor has reported unstable the simulation
\* stays paused, and no tick changes any body, until a manual resume or a
\* reset; after a manual resume without reset, while the non-finite body is
\* still active, the very next tick again reports unstable, runs no physics
\* and pauses again; after a reset the next unpaused tick runs physics.
\* The reset leaves no non-finite body in use, only a spawn with a non-finite
\* velocity brings one in, and an unpaused tick without one runs the physics.
C25_PausedUntilResumeOrReset ==
    /\ [][(TickStep /\ NumEv(out'.ev, "auto_paused") = 1) =>
            (simulation_paused' /\ bodies' = bodies)]_vars
    /\ [][(simulation_paused /\ ~simulation_paused') =>
            out'.op \in {"toggle", "reset"}]_vars
    /\ [][(TickStep /\ simulation_paused) =>
            (bodies' = bodies /\ simulation_paused')]_vars
    /\ [][(TickStep /\ out.op = "toggle" /\ ~simulation_paused /\ SomeNonFinite) =>
            /\ NumEv(out'.ev, "auto_paused") = 1
            /\ ~out'.ran
            /\ bodies' = bodies
            /\ simulation_paused']_vars
    /\ [][ResetStep => (~simulation_paused' /\ ~SomeNonFinite')]_vars
    /\ [][(~SomeNonFinite /\ SomeNonFinite') =>
            (SpawnStep /\ (NonFinite(out'.arg[4]) \/ NonFinite(out'.arg[5])))]_vars
    /\ [][(TickStep /\ ~simulation_paused /\ ~SomeNonFinite) => out'.ran]_vars

\* Without any reset and without any physics having run (body 1 of the batch
\* is where init_bodies put it), two ticks and two events have been taken and
\* the second tick has reported unstable: a body with a non-finite velocity
\* was spawned, the first tick paused, P resumed, and the tick paused again.
C25_Witness ==
    /\ out.op = "tick" /\ ~out.ran
    /\ NumEv(out.ev, "auto_paused") = 1
    /\ simulation_paused
    /\ resets = 0 /\ ticks = 2 /\ events = 2
    /\ bodies[1].x = 0 /\ bodies[1].y = 700 * SCALE /\ bodies[1].vx = 0 - SCALE

-----------------------------------------------------------------------------
(* C26 *)

\* The window has the size the bodies of the store were created for: the
\* batch and every spawn point of SpawnInputs lie inside it.
InitialViewport ==
    /\ window_width = INITIAL_WINDOW_WIDTH
    /\ window_height = INITIAL_WINDOW_HEIGHT

\* Every active body is inside [0, width] x [0, height].
AllInView ==
    \A i \in Used : bodies[i].active =>
        /\ bodies[i].x >= 0 /\ bodies[i].x <= window_width * SCALE
        /\ bodies[i].y >= 0 /\ bodies[i].y <= window_height * SCALE

\* C26: with a fixed viewport and bodies created only by reset or by spawn
\* at points inside the viewport, every active body's position lies in
\* [0, width] x [0, height] at the start of every tick, so the stability
\* monitor never emits its far-out-of-bounds advisory.
C26_BodiesStayInView ==
    /\ [](InitialViewport => AllInView)
    /\ [][(TickStep /\ InitialViewport) => NumEv(out'.ev, "far") = 0]_vars

\* In the initial viewport two ticks have run the physics, a spawned body is
\* active, and an active body sits exactly on the right edge after having
\* been wrapped there.
C26_Witness ==
    /\ InitialViewport
    /\ out.op = "tick" /\ out.ran /\ ticks = MaxTicks
    /\ body_count > INITIAL_BODY_COUNT
    /\ bodies[INITIAL_BODY_COUNT].active
    /\ \E i \in Used : bodies[i].active /\ bodies[i].x = window_width * SCALE
                                        /\ bodies[i].vx < 0

-----------------------------------------------------------------------------
(* C27 *)

\* Bodies i and j of the current state overlap: the distance between their
\* centres is less than the sum of their radii.
Overlap(i, j) ==
    LET dx == bodies[j].x - bodies[i].x
        dy == bodies[j].y - bodies[i].y
        sum == bodies[i].radius + bodies[j].radius
    IN  dx * dx + dy * dy < sum * sum

\* C27: at the end of every collision pass no two active bodies overlap: for
\* every pair of active bodies the distance between the centres is at least
\* the sum of their radii, also when a merge earlier in the pass enlarged an
\* absorber's radius.
C27_NoOverlapAfterPass ==
    (out.op = "tick" /\ out.ran) =>
        \A i \in Used : \A j \in Used :
            (i < j /\ bodies[i].active /\ bodies[j].active) => ~Overlap(i, j)

====
